---- MODULE Spec2Model ----
(***************************************************************************)
(* README generator of nicojahn/nicojahn: the placeholder tag engine       *)
(* (class UpdateREADME) and the activity digest (get_github_activity).     *)
(*                                                                         *)
(* Text is a sequence of tokens.  The two delimiters "<!-- " and " -->"    *)
(* are the atomic tokens open_seq and close_seq; every other token is one  *)
(* character that occurs in neither delimiter.  The token "." is the       *)
(* regular-expression wildcard when it stands in a pattern unescaped.      *)
(***************************************************************************)
EXTENDS Integers, Sequences, FiniteSets, TLC

VARIABLES
    file,           \* the lines of README.md on disk
    content,        \* self.content: None or the lines in memory
    information,    \* self.information: key -> None or a string
    pc,             \* position of the UpdateREADME call chain
    passes,         \* number of update_content calls that returned
    before,         \* self.content as it was before the last update_content
    extracted,      \* per line, the (window, key, value) results of the last update_content
    req,            \* the JSON list returned by the GitHub API
    all_repositories, \* get_github_activity: the sorted [days, description] list
    projects,       \* get_github_activity: the chosen descriptions
    digest,         \* the string get_github_activity returns
    apc             \* position of get_github_activity

vars == <<file, content, information, pc, passes, before, extracted,
          req, all_repositories, projects, digest, apc>>

tagVars == <<file, content, information, pc, passes, before, extracted>>
activityVars == <<req, all_repositories, projects, digest, apc>>

(***************************************************************************)
(* Optional values: None is the empty tuple, Some(v) the 1-tuple of v.     *)
(***************************************************************************)
None == <<>>
Some(v) == <<v>>

(***************************************************************************)
(* Strings                                                                 *)
(***************************************************************************)
open_seq == "<!-- "
close_seq == " -->"

\* `d in s` for a delimiter d
Contains(s, d) == \E i \in 1..Len(s) : s[i] = d

\* s.split(d): the parts of s between the occurrences of d
RECURSIVE SplitFrom(_, _, _, _, _)
SplitFrom(s, d, i, cur, acc) ==
    IF i > Len(s) THEN Append(acc, cur)
    ELSE IF s[i] = d THEN SplitFrom(s, d, i + 1, <<>>, Append(acc, cur))
    ELSE SplitFrom(s, d, i + 1, Append(cur, s[i]), acc)

Split(s, d) == SplitFrom(s, d, 1, <<>>, <<>>)

\* re.escape(value): a "." becomes the escaped atom, every other token is literal
re_escape(value) == [i \in 1..Len(value) |-> IF value[i] = "." THEN "\\." ELSE value[i]]

\* one atom of a compiled pattern against one token of the text
AtomMatches(atom, tok) ==
    IF atom = "." THEN tok \notin {open_seq, close_seq}
    ELSE IF atom = "\\." THEN tok = "."
    ELSE atom = tok

\* the pattern matches the text starting at position i
MatchesAt(pattern, text, i) ==
    /\ i + Len(pattern) - 1 <= Len(text)
    /\ \A j \in 1..Len(pattern) : AtomMatches(pattern[j], text[i + j - 1])

\* re.sub(pattern, repl, text): every non-overlapping match, leftmost first
RECURSIVE SubFrom(_, _, _, _, _)
SubFrom(pattern, repl, text, i, out) ==
    IF i > Len(text) THEN out
    ELSE IF MatchesAt(pattern, text, i)
         THEN SubFrom(pattern, repl, text, i + Len(pattern), out \o repl)
         ELSE SubFrom(pattern, repl, text, i + 1, Append(out, text[i]))

re_sub(pattern, repl, text) == SubFrom(pattern, repl, text, 1, <<>>)

(***************************************************************************)
(* UpdateREADME helpers                                                    *)
(***************************************************************************)
_is_true(i, j) == i /\ j

_equals(i, j) == i = j

_is_none(i) == _equals(i, None)

\* _equals(i, not None) compares i with True: False for None and for every string
_is_not_none(i) == FALSE

_both_are_none(key, value) == _is_true(_is_none(key), _is_none(value))

_both_are_not_none(key, value) == _equals(_is_not_none(key), _is_not_none(value))

\* zip([key, value], key_value) pairs key with key_value[0] and value with key_value[1]
_are_different_tags(key, value, key_value) ==
    _equals(~_equals(key, key_value[1]), ~_equals(value, key_value[2]))

NonePair == <<None, None>>

\* the loop of _extract_key_value_pair from element i on, with key and value pending
RECURSIVE ExtractFrom(_, _, _, _)
ExtractFrom(tup, i, key, value) ==
    IF i > Len(tup) THEN <<key, value>>
    ELSE IF ~Contains(tup[i], close_seq) THEN <<key, value>>
    ELSE LET key_value == Split(tup[i], close_seq) IN
         IF Len(key_value) = 2 /\ _both_are_none(key, value)
         THEN ExtractFrom(tup, i + 1, Some(key_value[1]), Some(key_value[2]))
         ELSE IF _both_are_not_none(key, value)
                 /\ key # None /\ value # None
                 /\ _are_different_tags(key[1], value[1], key_value)
              THEN NonePair
              ELSE ExtractFrom(tup, i + 1, key, value)

_extract_key_value_pair(tup) == ExtractFrom(tup, 1, None, None)

\* a call either returns a line or raises
Returned(line) == [raised |-> FALSE, line |-> line]
Raised(line) == [raised |-> TRUE, line |-> line]

Tag(key) == <<open_seq>> \o key \o <<close_seq>>

\* _replace_tag_in_line with self.keys and self.information given as info
_replace_tag_in_line(info, line, key, value) ==
    IF key \in DOMAIN info
    THEN LET pattern == Tag(key) \o re_escape(value) \o Tag(key) IN
         IF info[key] = None
         THEN Raised(line)
         ELSE Returned(re_sub(pattern, info[key][1], line))
    ELSE Returned(line)

sliding_window_size == 2

\* the sliding windows over line_split
Tuples(line_split) ==
    [i \in 1..(Len(line_split) - (sliding_window_size - 1)) |->
        SubSeq(line_split, i, i + sliding_window_size - 1)]

\* the loop over tuples from window i on; found records what each window gave
RECURSIVE ProcessFrom(_, _, _, _, _)
ProcessFrom(info, tuples, i, line, found) ==
    IF i > Len(tuples) THEN [raised |-> FALSE, line |-> line, found |-> found]
    ELSE LET kv == _extract_key_value_pair(tuples[i])
             called == kv[1] # None /\ kv[2] # None
             r == IF called
                  THEN _replace_tag_in_line(info, line, kv[1][1], kv[2][1])
                  ELSE Returned(line)
             seen == Append(found, [tup |-> tuples[i], key |-> kv[1], value |-> kv[2],
                                    called |-> called, raised |-> r.raised,
                                    line_in |-> line, line_out |-> r.line])
         IN IF r.raised
            THEN [raised |-> TRUE, line |-> line, found |-> seen]
            ELSE ProcessFrom(info, tuples, i + 1, r.line, seen)

\* _process_lines: the line returned (or the exception), with what each window gave
_process_lines(info, line) ==
    IF ~Contains(line, open_seq)
    THEN [raised |-> FALSE, line |-> line, found |-> <<>>]
    ELSE ProcessFrom(info, Tuples(Split(line, open_seq)), 1, line, <<>>)

\* list(map(self._process_lines, self.content))
MapLines(info, lines) == [i \in 1..Len(lines) |-> _process_lines(info, lines[i])]

(***************************************************************************)
(* The bounded inputs of the tag engine                                    *)
(***************************************************************************)
MaxSegments == 4
MaxPasses == 2

Prefixes == {<<>>, <<"a">>}
KeyTexts == {<<"x">>, <<".">>, <<"z">>}
ValueTexts == {<<>>, <<"1">>}

\* what may follow an open delimiter: nothing, key -->value, or a value holding a close
Segments ==
    {<<>>}
    \cup {k \o <<close_seq>> \o v : k \in KeyTexts, v \in ValueTexts}
    \cup {<<"x", close_seq, "1", close_seq>>}

RECURSIVE JoinOpen(_, _)
JoinOpen(line, segs) ==
    IF segs = <<>> THEN line
    ELSE JoinOpen(line \o <<open_seq>> \o Head(segs), Tail(segs))

MultiTagLine ==
    <<"A">> \o Tag(<<"x">>) \o <<"1">> \o Tag(<<"x">>) \o <<"B">>
            \o Tag(<<"y">>) \o <<"2">> \o Tag(<<"y">>) \o <<"C">>

NestedLine ==
    Tag(<<"x">>) \o Tag(<<"y">>) \o <<"1">> \o Tag(<<"y">>) \o <<"2">> \o Tag(<<"x">>)

Lines ==
    UNION {{JoinOpen(p, segs) : p \in Prefixes, segs \in [1..n -> Segments]} :
              n \in 0..MaxSegments}
    \cup {MultiTagLine, NestedLine}

TrailingLine == Tag(<<"z">>) \o <<"o", "l", "d">> \o Tag(<<"z">>)

Docs == {<<l>> : l \in Lines} \cup {<<l, TrailingLine>> : l \in Lines}

\* values of the key x: no string (data.py, "projects"), a plain string,
\* a string holding a tag pair of another key
XValues == {None, Some(<<"9">>), Some(Tag(<<".">>) \o <<"1">> \o Tag(<<".">>))}

\* the word filename is one token; no line of the bounded input holds it
Stores ==
    {(<<"filename">> :> Some(<<"README.md">>)) @@ (<<"x">> :> v)
       @@ (<<"y">> :> Some(<<"8">>)) @@ (<<".">> :> Some(<<"8">>)) : v \in XValues}

(***************************************************************************)
(* main: an UpdateREADME object is built from dynamic_information, then    *)
(* read_file_content, update_content and write_file_content are chained    *)
(***************************************************************************)
ActivityIdle ==
    /\ req = <<>>
    /\ all_repositories = <<>>
    /\ projects = <<>>
    /\ digest = <<>>
    /\ apc = "idle"

\* __init__
Init ==
    /\ file \in Docs
    /\ information \in Stores
    /\ content = None
    /\ pc = "constructed"
    /\ passes = 0
    /\ before = None
    /\ extracted = <<>>
    /\ ActivityIdle

read_file_content ==
    /\ pc = "constructed"
    /\ content' = Some(file)
    /\ pc' = "read"
    /\ UNCHANGED <<file, information, passes, before, extracted, activityVars>>

update_content ==
    /\ pc \in {"read", "updated"}
    /\ passes < MaxPasses
    /\ content # None
    /\ LET results == MapLines(information, content[1])
           failed == \E i \in 1..Len(results) : results[i].raised
       IN /\ extracted' = [i \in 1..Len(results) |-> results[i].found]
          /\ before' = content
          /\ IF failed
             THEN /\ pc' = "raised"
                  /\ UNCHANGED <<content, passes>>
             ELSE /\ content' = Some([i \in 1..Len(results) |-> results[i].line])
                  /\ passes' = passes + 1
                  /\ pc' = "updated"
    /\ UNCHANGED <<file, information, activityVars>>

write_file_content ==
    /\ pc = "updated"
    /\ content # None
    /\ file' = content[1]
    /\ pc' = "written"
    /\ UNCHANGED <<content, information, passes, before, extracted, activityVars>>

Next == read_file_content \/ update_content \/ write_file_content

Spec == Init /\ [][Next]_vars

(***************************************************************************)
(* get_github_activity.  A timestamp is a whole number of hours; DT_DATE is *)
(* the snapshot of now taken once when data.py is loaded.                  *)
(***************************************************************************)
GITHUB_USER_NAME == "nicojahn"
MAX_RECENT_ACTIVITY == 14
MAX_REPOS_LISTED == 5
DT_DATE == 1000

\* f"{GITHUB_USER_NAME}/{GITHUB_USER_NAME}"
ProfileRepository == "nicojahn/nicojahn"

\* (DT_DATE - strptime(latest_change_str)).days: whole days, rounded down
calculate_days_since_update(latest_change_str) == (DT_DATE - latest_change_str) \div 24

\* faulty variant: the profile repository is described like any other
create_repository_description_unfiltered(response) ==
    Some(<<"repository [", response.full_name, "](">> \o response.html_url
           \o <<") which was updated ",
                ToString(calculate_days_since_update(response.updated_at)), " days ago">>)

create_repository_description(response) ==
    IF response.full_name = ProfileRepository
    THEN None
    ELSE LET language_info ==
                 IF response.language # None
                 THEN <<" and is mainly written in ", response.language[1]>>
                 ELSE <<>>
         IN Some(<<"repository [", response.full_name, "](">> \o response.html_url
                   \o <<") which was updated ",
                        ToString(calculate_days_since_update(response.updated_at)),
                        " days ago">> \o language_info)

\* sorted(..., key=days): e goes behind every entry whose key is not greater (stable)
RECURSIVE InsertByKey(_, _)
InsertByKey(entries, e) ==
    IF entries = <<>> THEN <<e>>
    ELSE IF Head(entries)[1] <= e[1]
         THEN <<Head(entries)>> \o InsertByKey(Tail(entries), e)
         ELSE <<e>> \o entries

RECURSIVE sorted(_)
sorted(entries) ==
    IF entries = <<>> THEN <<>>
    ELSE InsertByKey(sorted(SubSeq(entries, 1, Len(entries) - 1)), entries[Len(entries)])

\* the loop of get_first_n_recent_projects from entry i on
RECURSIVE FirstNFrom(_, _, _, _)
FirstNFrom(repos, i, count, chosen) ==
    IF i > Len(repos) THEN chosen
    ELSE LET days_since_update == repos[i][1]
             repo_description == repos[i][2]
         IN IF repo_description # None /\ days_since_update < MAX_RECENT_ACTIVITY
            THEN IF count + 1 <= MAX_REPOS_LISTED
                 THEN FirstNFrom(repos, i + 1, count + 1, Append(chosen, repo_description[1]))
                 ELSE FirstNFrom(repos, i + 1, count + 1, chosen)
            ELSE FirstNFrom(repos, i + 1, count, chosen)

\* faulty variant: the window includes the day MAX_RECENT_ACTIVITY itself
RECURSIVE FirstNInclusiveFrom(_, _, _, _)
FirstNInclusiveFrom(repos, i, count, chosen) ==
    IF i > Len(repos) THEN chosen
    ELSE IF repos[i][2] # None /\ repos[i][1] <= MAX_RECENT_ACTIVITY
         THEN IF count + 1 <= MAX_REPOS_LISTED
              THEN FirstNInclusiveFrom(repos, i + 1, count + 1, Append(chosen, repos[i][2][1]))
              ELSE FirstNInclusiveFrom(repos, i + 1, count + 1, chosen)
         ELSE FirstNInclusiveFrom(repos, i + 1, count, chosen)

get_first_n_recent_projects_inclusive(repos) == FirstNInclusiveFrom(repos, 1, 0, <<>>)

get_first_n_recent_projects(repos) == FirstNFrom(repos, 1, 0, <<>>)

\* faulty variant: the loop has no break, the last description wins
RECURSIVE get_single_most_recent_project_no_break(_)
get_single_most_recent_project_no_break(repos) ==
    IF repos = <<>> THEN <<>>
    ELSE IF repos[Len(repos)][2] # None THEN <<repos[Len(repos)][2][1]>>
    ELSE get_single_most_recent_project_no_break(SubSeq(repos, 1, Len(repos) - 1))

RECURSIVE SingleFrom(_, _)
SingleFrom(repos, i) ==
    IF i > Len(repos) THEN <<>>
    ELSE IF repos[i][2] # None THEN <<repos[i][2][1]>>
    ELSE SingleFrom(repos, i + 1)

get_single_most_recent_project(repos) == SingleFrom(repos, 1)

\* " as well as ".join(projects)
RECURSIVE Join(_)
Join(strings) ==
    IF strings = <<>> THEN <<>>
    ELSE IF Len(strings) = 1 THEN strings[1]
    ELSE strings[1] \o <<" as well as ">> \o Join(Tail(strings))

(***************************************************************************)
(* The bounded answers of the GitHub API                                   *)
(***************************************************************************)
MaxRepos == 6

\* full names are unique; at most one of them is the profile repository
RepositoryNames ==
    <<"nicojahn/a", "nicojahn/b", "nicojahn/c", "nicojahn/d",
      "nicojahn/e", "nicojahn/f", "nicojahn/g", "nicojahn/h">>

\* one hour ahead of now, 13 days 23 hours, 14 days and 15 days back
UpdatedAts == {DT_DATE + 1, DT_DATE - 335, DT_DATE - 336, DT_DATE - 360}

Response(i, profile, updated_at) ==
    [full_name |-> IF i = profile THEN ProfileRepository ELSE RepositoryNames[i],
     html_url |-> <<"https://github.com/",
                    IF i = profile THEN ProfileRepository ELSE RepositoryNames[i]>>,
     updated_at |-> updated_at,
     language |-> IF i % 2 = 1 THEN Some("Python") ELSE None]

\* an answer of n records; profile = 0: it holds no profile repository
Request(n, profile, at) == [i \in 1..n |-> Response(i, profile, at[i])]

TagIdle ==
    /\ file = <<>>
    /\ content = None
    /\ information = (<<"filename">> :> Some(<<"README.md">>)) @@ (<<"projects">> :> None)
    /\ pc = "idle"
    /\ passes = 0
    /\ before = None
    /\ extracted = <<>>

InitActivity ==
    /\ \E n \in 0..MaxRepos : \E profile \in 0..n : \E at \in [1..n -> UpdatedAts] :
           req = Request(n, profile, at)
    /\ all_repositories = <<>>
    /\ projects = <<>>
    /\ digest = <<>>
    /\ apc = "start"
    /\ TagIdle

get_github_activity ==
    /\ apc = "start"
    /\ LET repos == sorted([i \in 1..Len(req) |->
                               <<calculate_days_since_update(req[i].updated_at),
                                 create_repository_description(req[i])>>])
           recent == get_first_n_recent_projects(repos)
           chosen == IF Len(recent) = 0
                     THEN get_single_most_recent_project(repos)
                     ELSE recent
       IN /\ all_repositories' = repos
          /\ projects' = chosen
          /\ digest' = Join(chosen)
    /\ apc' = "done"
    /\ UNCHANGED <<req, tagVars>>

NextActivity == get_github_activity

SpecActivity == InitActivity /\ [][NextActivity]_vars

(***************************************************************************)
(* Claims about the tag engine                                             *)
(***************************************************************************)
\* sub occurs in text as a contiguous run of tokens
Occurs(sub, text) ==
    \E p \in 1..(Len(text) - Len(sub) + 1) : SubSeq(text, p, p + Len(sub) - 1) = sub

\* the segment after an open delimiter reads key -->...: its key, and what follows it
KeyOf(seg) == Split(seg, close_seq)[1]
AfterKey(seg) == SubSeq(seg, Len(KeyOf(seg)) + 2, Len(seg))

\* segments j and j+1 of a split line frame a tag pair: <!-- K -->V<!-- K -->
PairAt(segs, j) ==
    /\ j >= 2
    /\ j + 1 <= Len(segs)
    /\ Len(Split(segs[j], close_seq)) = 2
    /\ Contains(segs[j + 1], close_seq)
    /\ KeyOf(segs[j + 1]) = KeyOf(segs[j])

PairSpan(segs, j) == Tag(KeyOf(segs[j])) \o AfterKey(segs[j]) \o Tag(KeyOf(segs[j]))

\* C1: applying update_content twice with the same store gives the lines that
\* applying it once gives: the second pass changes nothing.
C1_Idempotence == passes = 2 => content = before

\* C2: when _replace_tag_in_line is called for a confirmed pair whose key is in the
\* store and the line is pre <!-- K -->V<!-- K --> post with no other open delimiter,
\* the result is pre <!-- K -->store[K]<!-- K --> post: both markers stay where they
\* were and only the span between them is replaced.
C2_DelimiterPreservation ==
    \A i \in DOMAIN extracted : \A j \in DOMAIN extracted[i] :
        LET e == extracted[i][j] IN
        (e.called /\ ~e.raised /\ e.key[1] \in DOMAIN information) =>
            LET tag == Tag(e.key[1])
                pair == tag \o e.value[1] \o tag
                n == Len(pair)
            IN \A p \in 1..(Len(e.line_in) - n + 1) :
                 LET pre == SubSeq(e.line_in, 1, p - 1)
                     post == SubSeq(e.line_in, p + n, Len(e.line_in))
                 IN (/\ SubSeq(e.line_in, p, p + n - 1) = pair
                     /\ ~Contains(pre, open_seq)
                     /\ ~Contains(post, open_seq))
                    => e.line_out = pre \o tag \o information[e.key[1]][1] \o tag \o post

\* C3: a line A<!-- K1 -->V1<!-- K1 -->B<!-- K2 -->V2<!-- K2 -->C with distinct keys of
\* the store becomes A<!-- K1 -->store[K1]<!-- K1 -->B<!-- K2 -->store[K2]<!-- K2 -->C;
\* in particular A<!-- x -->1<!-- x -->B<!-- y -->2<!-- y -->C with x: 9 and y: 8
\* becomes A<!-- x -->9<!-- x -->B<!-- y -->8<!-- y -->C.
C3_MultiTagLine ==
    (pc = "updated" /\ passes = 1) =>
        \A i \in DOMAIN before[1] :
            LET line == before[1][i]
                segs == Split(line, open_seq)
                K1 == KeyOf(segs[2])
                K2 == KeyOf(segs[4])
            IN /\ (/\ Len(segs) = 5
                   /\ PairAt(segs, 2)
                   /\ PairAt(segs, 4)
                   /\ Len(Split(segs[3], close_seq)) = 2
                   /\ Len(Split(segs[5], close_seq)) = 2
                   /\ K1 # K2
                   /\ K1 \in DOMAIN information /\ information[K1] # None
                   /\ K2 \in DOMAIN information /\ information[K2] # None)
                  => content[1][i] =
                        segs[1] \o Tag(K1) \o information[K1][1] \o Tag(K1) \o AfterKey(segs[3])
                                \o Tag(K2) \o information[K2][1] \o Tag(K2) \o AfterKey(segs[5])
               /\ (/\ line = MultiTagLine
                   /\ information[<<"x">>] = Some(<<"9">>)
                   /\ information[<<"y">>] = Some(<<"8">>))
                  => content[1][i] =
                        <<"A">> \o Tag(<<"x">>) \o <<"9">> \o Tag(<<"x">>) \o <<"B">>
                                \o Tag(<<"y">>) \o <<"8">> \o Tag(<<"y">>) \o <<"C">>

\* C7: _process_lines returns a line for every line and never raises, so
\* update_content never ends in an exception.
C7_NoException == pc # "raised"

\* C8: a line whose only tag pairs have keys absent from the store is returned as
\* it was given, and on every line the span of a tag pair whose key is absent from
\* the store (markers and enclosed value) is still in the output.
C8_UnknownKeysNoOp ==
    pc = "updated" =>
        \A i \in DOMAIN before[1] :
            LET segs == Split(before[1][i], open_seq)
                pairs == {j \in 2..(Len(segs) - 1) : PairAt(segs, j)}
            IN /\ (/\ pairs # {}
                   /\ \A j \in pairs : KeyOf(segs[j]) \notin DOMAIN information)
                  => content[1][i] = before[1][i]
               /\ \A j \in pairs :
                     KeyOf(segs[j]) \notin DOMAIN information
                         => Occurs(PairSpan(segs, j), content[1][i])

\* C9: for every <!-- K -->V<!-- K --> on a line, K a key of the store holding a
\* string and free of the close delimiter, V free of the open delimiter, the window
\* starting at that segment is confirmed as (K, V), and the line is rewritten when
\* the store's value differs from V.
C9_WellFormedPairSubstituted ==
    pc = "updated" =>
        \A i \in DOMAIN before[1] :
            LET segs == Split(before[1][i], open_seq) IN
            \A j \in 2..(Len(segs) - 1) :
                LET K == KeyOf(segs[j])
                    V == AfterKey(segs[j])
                IN (/\ Contains(segs[j], close_seq)
                    /\ Contains(segs[j + 1], close_seq)
                    /\ KeyOf(segs[j + 1]) = K
                    /\ K \in DOMAIN information
                    /\ information[K] # None)
                   => /\ extracted[i][j].key = Some(K)
                      /\ extracted[i][j].value = Some(V)
                      /\ information[K][1] # V => content[1][i] # before[1][i]

\* C10: a window whose first segment splits into (key1, value1) and whose second
\* segment splits into another key or into something other than two parts gives
\* (None, None); a window gives a pair only when its second segment starts with
\* the same key followed by the close delimiter.
C10_StraddlingWindowRejected ==
    \A i \in DOMAIN extracted : \A j \in DOMAIN extracted[i] :
        LET e == extracted[i][j]
            first == Split(e.tup[1], close_seq)
            second == Split(e.tup[2], close_seq)
        IN Len(first) = 2 =>
              /\ (Len(second) # 2 \/ second[1] # first[1])
                     => <<e.key, e.value>> = NonePair
              /\ <<e.key, e.value>> # NonePair
                     => (Len(second) >= 2 /\ second[1] = e.key[1])

(***************************************************************************)
(* Claims about the activity digest                                        *)
(***************************************************************************)
DaysOf(i) == calculate_days_since_update(req[i].updated_at)

NonSelf == {i \in DOMAIN req : req[i].full_name # ProfileRepository}

Qualifying == {i \in NonSelf : DaysOf(i) < MAX_RECENT_ACTIVITY}

\* record i stands before record j in the list sorted by days, ties in input order
SortsBefore(i, j) == DaysOf(i) < DaysOf(j) \/ (DaysOf(i) = DaysOf(j) /\ i < j)

RankIn(S, i) == Cardinality({j \in S : SortsBefore(j, i)}) + 1

\* the records of S in sorted order, at most n of them
FirstOf(S, n) ==
    LET m == IF Cardinality(S) < n THEN Cardinality(S) ELSE n
    IN [r \in 1..m |-> CHOOSE i \in S : RankIn(S, i) = r]

DescriptionOf(i) == create_repository_description(req[i])[1]

RECURSIVE SeparatedBy(_, _)
SeparatedBy(texts, separator) ==
    IF Len(texts) = 0 THEN <<>>
    ELSE SeparatedBy(SubSeq(texts, 1, Len(texts) - 1), separator)
         \o (IF Len(texts) = 1 THEN <<>> ELSE <<separator>>) \o texts[Len(texts)]

DigestOf(records) ==
    SeparatedBy([r \in 1..Len(records) |-> DescriptionOf(records[r])], " as well as ")

Range(f) == {f[i] : i \in DOMAIN f}

\* C4: when some non-self entry was updated less than MAX_RECENT_ACTIVITY days ago,
\* the digest is the descriptions of the first min(MAX_REPOS_LISTED, number of such
\* entries) of them in sorted order (ties in input order), joined by " as well as ";
\* nothing older is listed and never more than MAX_REPOS_LISTED.
C4_RecencyAndCap ==
    (apc = "done" /\ Qualifying # {}) =>
        /\ digest = DigestOf(FirstOf(Qualifying, MAX_REPOS_LISTED))
        /\ Len(projects) <= MAX_REPOS_LISTED
        /\ \A i \in NonSelf :
              DaysOf(i) >= MAX_RECENT_ACTIVITY => DescriptionOf(i) \notin Range(projects)

\* the cap cuts the list, a tie is decided by input order, and the profile
\* repository and an older repository stand in the answer
C4_Witness ==
    /\ apc = "done"
    /\ Cardinality(Qualifying) > MAX_REPOS_LISTED
    /\ Len(projects) = MAX_REPOS_LISTED
    /\ \E i \in Qualifying, j \in Qualifying :
          /\ i < j
          /\ DaysOf(i) = DaysOf(j)
          /\ RankIn(Qualifying, i) = MAX_REPOS_LISTED
    /\ \E i \in Qualifying, j \in Qualifying : DaysOf(i) < DaysOf(j) /\ j < i

\* C5: when no non-self entry was updated less than MAX_RECENT_ACTIVITY days ago,
\* the digest is the description of the first non-self entry in sorted order, also
\* when a self entry sorts before it, and the empty string when there is no
\* non-self entry.
C5_Fallback ==
    (apc = "done" /\ Qualifying = {}) =>
        IF NonSelf = {}
        THEN digest = <<>>
        ELSE digest = DigestOf(FirstOf(NonSelf, 1))

\* the fallback is taken with the profile repository sorting first and the
\* nearest non-self entry neither first nor last in the answer
C5_Witness ==
    /\ apc = "done"
    /\ Qualifying = {}
    /\ digest # <<>>
    /\ \E s \in DOMAIN req, i \in NonSelf :
          /\ req[s].full_name = ProfileRepository
          /\ DaysOf(s) < MAX_RECENT_ACTIVITY
          /\ RankIn(NonSelf, i) = 1
          /\ 1 < i /\ i < Len(req)
          /\ \E j \in NonSelf : j < i /\ DaysOf(i) < DaysOf(j)
          /\ \E j \in NonSelf : i < j /\ DaysOf(i) = DaysOf(j)

\* C6: the profile repository contributes nothing to the digest: its full name
\* stands nowhere in it and no chosen description is a description of it.
C6_SelfExcluded ==
    apc = "done" =>
        /\ ProfileRepository \notin Range(digest)
        /\ \A k \in DOMAIN projects : ProfileRepository \notin Range(projects[k])

\* the profile repository is the most recently updated record, inside the window,
\* and other repositories are listed
C6_Witness ==
    /\ apc = "done"
    /\ digest # <<>>
    /\ \E s \in DOMAIN req :
          /\ req[s].full_name = ProfileRepository
          /\ DaysOf(s) < 0
          /\ \A j \in DOMAIN req : j # s => DaysOf(s) < DaysOf(j)

====
